---- MODULE Spec2Model ----
(***************************************************************************)
(* The cloud-managed connector of src/connectors/managed.py as a state     *)
(* machine: construction (the two authorization loaders), the sync driver  *)
(* _load_records, the credential rotation of _load_iam_list, the record    *)
(* enrichment of _load_list and the pagination loop of get_list_of_items.  *)
(* The program is single-threaded; pc is the place of the one thread of    *)
(* control inside the nested generators.  The external collaborators (Call *)
(* Builder, Renderer, API Executor, IAM source, platform) are inputs: each *)
(* call returns one of its possible results, drawn with \E.                *)
(***************************************************************************)
EXTENDS Integers, Sequences, FiniteSets, TLC

\* Connector.MAX_ITERATIONS, managed.py:61
MAX_ITERATIONS == 1000

\* Non-empty pages a terminating remote API holds before its first empty page.
MaxPages == 2
\* Records in one page.
MaxPageLen == 2
\* Credential sets the IAM source produces.
MaxCreds == 2

VARIABLES
    pc,                     \* place of the thread of control
    saas_authorization,     \* self.settings['saas_authorization']
    session_auth_behavior,  \* self.session_auth_behavior
    ctor_error,             \* error class raised by __init__, "none" if none
    cfg,                    \* the Behaviors and the remote API's kind
    oomnitza_authorization, \* self.settings['oomnitza_authorization']
    api_token,              \* self.OomnitzaConnector.settings['api_token']
    oomnitza_given,         \* history: oomnitza_authorization as configured
    loaders_done,           \* history: authorization loaders __init__ completed
    pass,                   \* "none" | "direct" | "rotating" | "default"
    skip_empty_response,    \* argument of the running get_list_of_items
    iam_credentials,        \* argument of the running get_list_of_items
    iteration,              \* local of get_list_of_items
    page_len,               \* len(result) of the page being emitted
    idx,                    \* position of the for-loop over result (1-based)
    ctx,                    \* the Rendering Context (the keys the claims read)
    exc,                    \* exception in flight / raised by the sync driver
    iam_iteration,          \* local "iteration" of _load_iam_list
    iam_records,            \* local of _load_iam_list
    iam_response,           \* items collected by list(...) in the rotating pass
    creds_used,             \* credential sets drawn from the IAM source so far
    list_response_item,     \* the list record being enriched
    item_details,           \* item_details of _load_list
    item,                   \* the item _load_list yields next
    requests,               \* history: list requests executed in this pass
    emitted,                \* history: records emitted by this pass
    yielded,                \* history: items yielded by _load_list in this pass
    fetched,                \* history: records in the pages this pass was given
    delivered,              \* history: kinds of the items the consumer received
    actions,                \* history: reporting actions of _load_records
    caught,                 \* history: the outcome _load_records caught
    session_entered,        \* history: generate_session_based_secret was entered
    stale_seen,             \* history: a Behavior was evaluated with a stale key
    rot_emitted,            \* history: a rotating pass emitted a record
    steps,                  \* history: enrichment steps attempted for the record
    enrich,                 \* history: requests and software list of the record
    fault,                  \* history: text of the original error of the pass
    last_result,            \* history: what the result of this iteration was
    break_early,            \* history: break_early ended the loop of this pass
    add_if_evals,           \* history: evaluations of add_if in this pass
    auth_with,              \* history: what authorized the call in hand
    call_spec               \* api_call_specification of get_list_of_items

callVars == <<break_early, add_if_evals, auth_with, call_spec>>

vars == <<pc, saas_authorization, session_auth_behavior, ctor_error, cfg,
          oomnitza_authorization, api_token, oomnitza_given, loaders_done, pass,
          skip_empty_response, iam_credentials, iteration, page_len, idx, ctx, exc,
          iam_iteration, iam_records, iam_response, creds_used,
          list_response_item, item_details, item, requests, emitted, yielded, fetched,
          delivered, actions, caught, session_entered, stale_seen, rot_emitted,
          steps, enrich, fault, last_result, callVars>>

oomnitzaVars == <<oomnitza_authorization, api_token, oomnitza_given, loaders_done>>
settingsVars == <<saas_authorization, session_auth_behavior, ctor_error, cfg,
                  oomnitzaVars>>
passVars == <<pass, skip_empty_response, iam_credentials>>
pageVars == <<page_len, idx>>
iamVars == <<iam_iteration, iam_records, iam_response, creds_used>>
recVars == <<list_response_item, item_details, item, steps, enrich>>
countVars == <<requests, emitted, yielded, fetched>>
driverVars == <<delivered, actions, caught>>
sessionVars == <<session_entered, stale_seen>>

----------------------------------------------------------------------------
(* Authorization Resolver *)

\* The shapes of the saas_authorization setting.  shape: a mapping ("dict"), a
\* JSON string of a mapping ("json"), a string that is not JSON ("badjson"),
\* anything else ("other").  headers/params: missing or empty ("absent"), a
\* non-empty mapping ("dict"), not a mapping ("bad").
SaasInputs ==
    [shape : {"dict", "json"},
     credential_id : {"absent", "str", "emptystr", "other"},
     type : {"absent", "session"},
     behavior : {"absent", "empty", "set"},
     headers : {"absent", "dict", "bad"},
     params : {"absent", "dict", "bad"}]
    \cup
    [shape : {"badjson", "other"}, credential_id : {"absent"}, type : {"absent"},
     behavior : {"absent"}, headers : {"absent"}, params : {"absent"}]

\* A mapping without any of the keys the connector reads: {}.
EmptySettings ==
    [shape |-> "dict", credential_id |-> "absent", type |-> "absent",
     behavior |-> "absent", headers |-> "nokey", params |-> "nokey"]

\* value.get(key, {}) of a headers/params entry: a missing entry reads as {}.
GetOrEmpty(v) == IF v = "absent" THEN "empty" ELSE v

\* saas_authorization_loader: the settings entry, the session behavior and the
\* error class it leaves (the assignments made before a raise are kept).
saas_authorization_loader(value) ==
    IF value.shape = "badjson"
    THEN [sa |-> value, sab |-> "absent", err |-> "JSONDecodeError"]
    ELSE IF value.shape = "other"
    THEN [sa |-> value, sab |-> "absent", err |-> "ConfigError"]
    ELSE IF value.credential_id \in {"str", "emptystr"}
    THEN [sa |-> [EmptySettings EXCEPT !.credential_id = value.credential_id],
          sab |-> "absent", err |-> "none"]
    ELSE IF value.type = "session"
    THEN [sa |-> EmptySettings,
          sab |-> value.behavior,
          err |-> IF value.behavior = "absent" THEN "KeyError" ELSE "none"]
    ELSE IF value.headers = "dict" \/ value.params = "dict"
    THEN [sa |-> [EmptySettings EXCEPT !.headers = GetOrEmpty(value.headers),
                                       !.params = GetOrEmpty(value.params)],
          sab |-> "absent", err |-> "none"]
    ELSE [sa |-> value, sab |-> "absent", err |-> "ConfigError"]

\* The canonical mode attach_saas_authorization acts on.
SaasMode ==
    IF saas_authorization.credential_id = "str" THEN "credential"
    ELSE IF session_auth_behavior = "set" THEN "session"
    ELSE IF saas_authorization.headers # "nokey" THEN "static"
    ELSE "broken"

----------------------------------------------------------------------------
(* Configuration and environment *)

NoBehaviors ==
    [pagination |-> FALSE, iam |-> FALSE, detail |-> FALSE,
     software |-> "off", saas |-> FALSE, endless |-> FALSE]

\* The Behaviors handed to __init__ and the kind of remote API.  pagination:
\* list_behavior has a pagination rule set; iam: inputs hold iam_roles;
\* detail: detail_behavior is set; software: disabled ("off"), enabled without
\* url/http_method ("derived"), enabled with both ("call"); saas: enabled with
\* a sync_key; endless: the API never returns an empty page and break_early
\* never turns true.  The endless API is explored with enrichment disabled,
\* and credential rotation without detail and software Behaviors (the NOTE of
\* _load_list: AWS connectors have none).
Configs ==
    {c \in [pagination : BOOLEAN, iam : BOOLEAN, detail : BOOLEAN,
            software : {"off", "derived", "call"}, saas : BOOLEAN,
            endless : BOOLEAN] :
        /\ c.endless => (~c.detail /\ c.software = "off" /\ ~c.saas)
        /\ c.iam => (~c.detail /\ c.software = "off")}

NoExc == [cls |-> "none", text |-> ""]
\* iam_credentials=None: no rotating credential set (set k is the number k).
NoCredentials == 0
\* No call has been authorized.
NotAuthorized == -1
\* No Call Specification in hand.  One in hand is the iteration it was built
\* at, the layers written into its headers and params in the order they were
\* written, and what add_if rendered to for it.
NoCall == [built_at |-> -1, layers |-> <<>>, add_if |-> "none"]
NoItem == [kind |-> "none", page |-> 0, idx |-> 0, software |-> FALSE,
           saas |-> FALSE, merged |-> FALSE, dict |-> TRUE, err |-> ""]
\* The Rendering Context before the run: no iteration (-1), no list_response
\* (-2; -1 is the empty mapping {}, n >= 0 the response of the request made at
\* iteration n), and none of the session keys.
EmptyCtx == [iteration |-> -1, list_response |-> -2, keys |-> {}]
\* Nothing requested for the record yet, no software list rendered.
NoEnrich == [detail_requests |-> 0, software_requests |-> 0, software_list |-> "none"]

\* The shapes of the oomnitza_authorization setting: a string, None, a
\* number, a list or a mapping; truthy or not (empty string, 0, empty list,
\* empty mapping, None); for a mapping, whether it has no token_id, a falsy
\* one (0, "") or a set one, and whether it has other keys.
OomnitzaInputs ==
    {v \in [type : {"str", "none", "number", "list", "dict"}, truthy : BOOLEAN,
            token_id : {"absent", "falsy", "set"}, extra : BOOLEAN,
            origin : {"given"}] :
        /\ v.type = "none" => ~v.truthy
        /\ v.type # "dict" => (v.token_id = "absent" /\ ~v.extra)
        /\ v.type = "dict" => (v.truthy <=> (v.token_id # "absent" \/ v.extra))}

\* A token string: the one configured for the connector, the one of the
\* [oomnitza] section, the one the platform gives for a token id.
Token(origin) ==
    [type |-> "str", truthy |-> TRUE, token_id |-> "absent", extra |-> FALSE,
     origin |-> origin]

\* The loader takes every mapping with a token_id key for the cloud setup.
oomnitza_authorization_loader_AnyTokenId(value, platform_token) ==
    IF value.type = "str" /\ value.truthy
    THEN [oa |-> value, err |-> "none"]
    ELSE IF ~value.truthy
    THEN [oa |-> platform_token, err |-> "none"]
    ELSE IF value.type = "dict" /\ value.token_id # "absent"
    THEN [oa |-> [value EXCEPT !.extra = FALSE], err |-> "none"]
    ELSE [oa |-> value, err |-> "ConfigError"]

\* oomnitza_authorization_loader: the setting it leaves and the error it
\* raises.  {"token_id": value['token_id']} drops every other key.
oomnitza_authorization_loader(value, platform_token) ==
    IF value.type = "str" /\ value.truthy
    THEN [oa |-> value, err |-> "none"]
    ELSE IF ~value.truthy
    THEN [oa |-> platform_token, err |-> "none"]
    ELSE IF value.type = "dict" /\ value.token_id = "set"
    THEN [oa |-> [value EXCEPT !.extra = FALSE], err |-> "none"]
    ELSE [oa |-> value, err |-> "ConfigError"]

\* get_oomnitza_auth_for_sync: a mapping is resolved by its token id, anything
\* else is the token.
get_oomnitza_auth_for_sync(setting) ==
    IF setting.type = "dict" THEN Token("token_service") ELSE setting

\* Everything but the connector's own authorization at construction time.
InitRest ==
    /\ pc = "new"
    /\ session_auth_behavior = "absent"
    /\ ctor_error = "none"
    /\ cfg = NoBehaviors
    /\ api_token = Token("platform")
    /\ oomnitza_given = oomnitza_authorization
    /\ loaders_done = 0
    /\ pass = "none"
    /\ skip_empty_response = FALSE
    /\ iam_credentials = NoCredentials
    /\ iteration = 0
    /\ page_len = 0
    /\ idx = 0
    /\ ctx = EmptyCtx
    /\ exc = NoExc
    /\ iam_iteration = 0
    /\ iam_records = 0
    /\ iam_response = 0
    /\ creds_used = 0
    /\ list_response_item = NoItem
    /\ item_details = NoItem
    /\ item = NoItem
    /\ requests = 0
    /\ emitted = 0
    /\ yielded = 0
    /\ fetched = 0
    /\ delivered = {}
    /\ actions = <<>>
    /\ caught = "none"
    /\ session_entered = FALSE
    /\ stale_seen = FALSE
    /\ rot_emitted = FALSE
    /\ steps = <<>>
    /\ enrich = NoEnrich
    /\ fault = ""
    /\ last_result = "none"
    /\ break_early = FALSE
    /\ add_if_evals = 0
    /\ auth_with = NotAuthorized
    /\ call_spec = NoCall

\* The state after the settings are read, for a connector configured with its
\* own Oomnitza token: every saas_authorization.
Init ==
    /\ saas_authorization \in SaasInputs
    /\ oomnitza_authorization = Token("given")
    /\ InitRest

\* The same, for every oomnitza_authorization.
InitAuth ==
    /\ saas_authorization \in SaasInputs
    /\ oomnitza_authorization \in OomnitzaInputs
    /\ InitRest

\* __init__: the Behaviors are taken from the settings, then the two
\* authorization loaders run, the second only if the first returned.  (The
\* field mappings are settings that no action below reads.)
Construct ==
    /\ pc = "new"
    /\ \E c \in Configs :
        LET r == saas_authorization_loader(saas_authorization)
            q == oomnitza_authorization_loader(oomnitza_authorization, api_token)
        IN
        /\ cfg' = c
        /\ saas_authorization' = r.sa
        /\ session_auth_behavior' = r.sab
        /\ IF r.err # "none"
           THEN /\ ctor_error' = r.err
                /\ loaders_done' = 0
                /\ UNCHANGED oomnitza_authorization
           ELSE /\ ctor_error' = q.err
                /\ loaders_done' = IF q.err = "none" THEN 2 ELSE 1
                /\ oomnitza_authorization' = q.oa
        /\ pc' = IF r.err = "none" /\ q.err = "none" THEN "ready" ELSE "ctor_failed"
    /\ UNCHANGED <<api_token, oomnitza_given, passVars, iteration, pageVars, ctx, exc, iamVars, recVars,
                   countVars, driverVars, sessionVars, rot_emitted, fault, last_result, callVars>>

----------------------------------------------------------------------------
(* Authorization per request *)

SessionKeys == {"response", "response_headers"}

\* What one authorization of a request can do.  For a rotating pass the
\* credential set yields the secret (get_aws_session_secret); otherwise
\* attach_saas_authorization: the credential lookup, the session secret, or
\* the stored headers/params, which the caller then merges with update(**..).
AuthOutcomes(rotating) ==
    IF rotating THEN {"ok", "lookup_fail"}
    ELSE IF SaasMode = "credential" THEN {"ok", "lookup_fail"}
    ELSE IF SaasMode = "session"
    THEN {"ok", "session_build_fail", "session_request_fail", "session_render_fail"}
    ELSE IF SaasMode = "static"
    THEN IF "bad" \in {saas_authorization.headers, saas_authorization.params}
         THEN {"merge_fail"} ELSE {"ok"}
    ELSE {"key_error"}

\* generate_session_based_secret's effect on the context keys: the response is
\* written once the request returned, and cleared only on the last line.
SessionKeysAfter(keys, o) ==
    IF o = "ok" THEN keys \ SessionKeys
    ELSE IF o = "session_render_fail" THEN keys \cup SessionKeys
    ELSE keys

IsSessionOutcome(rotating) == ~rotating /\ SaasMode = "session"

\* A Behavior (list, detail, software) is evaluated against the context: it
\* sees a stale session response if the keys are still there.
SeesStale(keys) == session_entered /\ keys \cap SessionKeys # {}

----------------------------------------------------------------------------
(* Pagination Engine: get_list_of_items *)

\* The except clauses with every failure taken for an early one.
ExceptClause_AlwaysEarly(e, n) ==
    IF e.cls = "EmptyInBeginning" THEN e
    ELSE [cls |-> "InBeginning", text |-> e.text]

\* The except clauses of get_list_of_items.
ExceptClause(e, n) ==
    IF e.cls = "EmptyInBeginning" THEN e
    ELSE IF n = 0 THEN [cls |-> "InBeginning", text |-> e.text]
    ELSE [cls |-> "InMiddle", text |-> e.text]

\* An error raised inside the try block leaves get_list_of_items as it is.
Raise_Unclassified(e) ==
    /\ exc' = e
    /\ fault' = e.text
    /\ pc' = "pass_raised"

\* An error raised inside the try block at the current iteration.
Raise(e) ==
    /\ exc' = ExceptClause(e, iteration)
    /\ fault' = e.text
    /\ pc' = "pass_raised"

Error(site) == [cls |-> "Exception", text |-> site]

\* The endless API past its varied pages: no empty page, no break_early.
InTail(n) == cfg.endless /\ n >= MaxPages
PageAllowed(n) == cfg.endless \/ n < MaxPages
\* The endless API returns the same one-record page every time.
PageLens(n) == IF cfg.endless THEN {1} ELSE 1..MaxPageLen
RecordShapes == IF cfg.endless THEN {TRUE} ELSE BOOLEAN

Responses(n) ==
    [kind : {"request_fail", "shim_error", "result_fail"}, len : {0}]
    \cup (IF InTail(n) THEN {} ELSE [kind : {"empty"}, len : {0}])
    \cup (IF PageAllowed(n) THEN [kind : {"page"}, len : PageLens(n)] ELSE {})

\* The generator body starts: iteration = 0 and the context reset.
PassStart ==
    /\ pc = "pass_start"
    /\ iteration' = 0
    /\ ctx' = [ctx EXCEPT !.iteration = 0, !.list_response = -1]
    /\ requests' = 0
    /\ emitted' = 0
    /\ yielded' = 0
    /\ fetched' = 0
    /\ last_result' = "none"
    /\ break_early' = FALSE
    /\ add_if_evals' = 0
    /\ auth_with' = NotAuthorized
    /\ call_spec' = NoCall
    /\ pc' = "loop"
    /\ UNCHANGED <<settingsVars, passVars, pageVars, exc, iamVars, recVars,
                   driverVars, sessionVars, rot_emitted, fault>>

\* The condition of the while loop, with the cap missed by one.
LoopCondition_OffByOne == iteration <= MAX_ITERATIONS

\* The condition of the while loop.
LoopCondition == iteration < MAX_ITERATIONS

\* The Call Specification build_call_specs returns for the list Behavior.
build_call_specs(n) == [built_at |-> n, layers |-> <<"base">>, add_if |-> "none"]

\* The keys are written with setdefault: a value already there stays.
Update_KeepExisting(spec, layer) == [spec EXCEPT !.layers = <<layer>> \o @]

\* headers.update(**..) and params.update(**..): the layer written last gives
\* the value of a key that several layers hold.
Update(spec, layer) == [spec EXCEPT !.layers = Append(@, layer)]

\* The layer whose value a key held by every layer has in the call.
Effective(spec) == spec.layers[Len(spec.layers)]

\* while iteration < MAX_ITERATIONS: build_call_specs(self.list_behavior).
BuildListCall ==
    /\ pc = "loop"
    /\ LoopCondition
    /\ last_result' = "none"
    /\ stale_seen' = (stale_seen \/ SeesStale(ctx.keys))
    /\ \E ok \in BOOLEAN :
        IF ok
        THEN /\ call_spec' = build_call_specs(iteration)
             /\ pc' = IF cfg.pagination THEN "paginate" ELSE "authorize"
             /\ UNCHANGED <<exc, fault>>
        ELSE /\ call_spec' = NoCall
             /\ Raise(Error("build_call_specs"))
    /\ UNCHANGED <<settingsVars, passVars, iteration, pageVars, ctx, iamVars,
                   recVars, countVars, driverVars, session_entered, rot_emitted,
                   break_early, add_if_evals, auth_with>>

\* The loop condition fails.
LoopExit ==
    /\ pc = "loop"
    /\ ~LoopCondition
    /\ pc' = "after_loop"
    /\ UNCHANGED <<settingsVars, passVars, iteration, pageVars, ctx, exc, iamVars,
                   recVars, countVars, driverVars, sessionVars, rot_emitted, fault, last_result, callVars>>

\* What the pagination block can do: break_early renders true ("break"),
\* or false and add_if false ("plain") or true ("extras"), or one of the
\* renders raises.
PaginateOutcomes ==
    {"break", "plain", "extras", "break_early_fail", "add_if_fail", "extras_fail"}

\* add_if is rendered once break_early rendered false.
AddIfEvaluated(o) == o \in {"plain", "extras", "add_if_fail", "extras_fail"}

\* What add_if rendered to.
AddIfResult(o) ==
    IF o \in {"extras", "extras_fail"} THEN "true"
    ELSE IF o = "plain" THEN "false"
    ELSE "none"

\* break_early is rendered but the loop goes on whatever it gives.
PaginateTarget_NoBreak(o) == "authorize"

\* if bool(render_to_native(break_early_control)): break.
PaginateTarget(o) == IF o = "break" THEN "after_loop" ELSE "authorize"

\* if pagination_dict: break_early, then add_if and the extras.
Paginate ==
    /\ pc = "paginate"
    /\ \E o \in PaginateOutcomes :
        /\ o = "break" => ~InTail(iteration)
        /\ break_early' = (o = "break")
        /\ add_if_evals' = IF AddIfEvaluated(o) THEN add_if_evals + 1 ELSE add_if_evals
        /\ IF o \in {"break", "plain", "extras"}
           THEN /\ pc' = PaginateTarget(o)
                /\ call_spec' =
                       IF o = "break" THEN NoCall
                       ELSE IF AddIfResult(o) = "true"
                       THEN [Update(call_spec, "extras") EXCEPT !.add_if = "true"]
                       ELSE [call_spec EXCEPT !.add_if = AddIfResult(o)]
                /\ UNCHANGED <<exc, fault>>
           ELSE /\ call_spec' = NoCall
                /\ Raise(Error(o))
    /\ UNCHANGED <<settingsVars, passVars, iteration, pageVars, ctx, iamVars,
                   recVars, countVars, driverVars, sessionVars, rot_emitted,
                   last_result, auth_with>>

\* The authorization of the list request and its merge into the call.
Authorize ==
    /\ pc = "authorize"
    /\ \E o \in AuthOutcomes(iam_credentials # NoCredentials) :
        /\ ctx' = [ctx EXCEPT !.keys = SessionKeysAfter(@, o)]
        /\ IF o = "ok"
           THEN /\ pc' = "request"
                /\ auth_with' = iam_credentials
                /\ call_spec' = Update(call_spec, "auth")
                /\ UNCHANGED <<exc, fault>>
           ELSE /\ Raise(Error(o))
                /\ call_spec' = NoCall
                /\ UNCHANGED auth_with
    /\ session_entered' =
           (session_entered \/ IsSessionOutcome(iam_credentials # NoCredentials))
    /\ UNCHANGED <<settingsVars, passVars, iteration, pageVars, iamVars, recVars,
                   countVars, driverVars, stale_seen, rot_emitted, last_result,
                   break_early, add_if_evals>>

\* An empty result always ends the loop with a break.
EmptyIsError_Never == FALSE

\* An empty result is the empty-at-start outcome even when the caller asked
\* for tolerance.
EmptyIsError_NoTolerance == iteration = 0

\* if iteration == 0 and not skip_empty_response.
EmptyIsError == iteration = 0 /\ ~skip_empty_response

\* The response is written into the context before the shim marker is looked at.
ContextUpdated_BeforeShimCheck(kind) == kind # "request_fail"

\* update_rendering_context(list_response=..., list_response_headers=...,
\* list_response_links=...) is reached: the request returned and the response
\* holds no shim_error_message.
ContextUpdated(kind) == kind \notin {"request_fail", "shim_error"}

\* perform_api_request, the shim check, the context update and the result.
Request ==
    /\ pc = "request"
    /\ requests' = requests + 1
    /\ auth_with' = NotAuthorized
    /\ call_spec' = NoCall
    /\ \E r \in Responses(iteration) :
        /\ last_result' = r.kind
        /\ fetched' = fetched + r.len
        /\ ctx' = IF ContextUpdated(r.kind)
                  THEN [ctx EXCEPT !.list_response = iteration]
                  ELSE ctx
        /\ stale_seen' = IF r.kind \in {"request_fail", "shim_error"} THEN stale_seen
                         ELSE (stale_seen \/ SeesStale(ctx.keys))
        /\ IF r.kind = "page"
           THEN /\ page_len' = r.len
                /\ idx' = 1
                /\ pc' = "emit"
                /\ UNCHANGED <<exc, fault>>
           ELSE IF r.kind = "empty"
           THEN /\ UNCHANGED pageVars
                /\ IF EmptyIsError
                   THEN Raise([cls |-> "EmptyInBeginning", text |-> "empty_at_start"])
                   ELSE pc' = "after_loop" /\ UNCHANGED <<exc, fault>>
           ELSE /\ UNCHANGED pageVars
                /\ Raise(Error(r.kind))
    /\ UNCHANGED <<settingsVars, passVars, iteration, iamVars, recVars, emitted,
                   yielded, driverVars, session_entered, rot_emitted, break_early,
                   add_if_evals>>

\* The dict-ness of a list record is the API's choice.
ListRecord(d) ==
    [kind |-> "record", page |-> iteration, idx |-> idx, software |-> FALSE,
     saas |-> FALSE, merged |-> FALSE, dict |-> d, err |-> ""]

\* The for loop over the page stops one record short.
PageExhausted_Short == idx >= page_len

\* The for loop over result has no record left.
PageExhausted == idx > page_len

\* for entity in result: yield entity.
Emit ==
    /\ pc = "emit"
    /\ ~PageExhausted
    /\ \E d \in RecordShapes : list_response_item' = ListRecord(d)
    /\ emitted' = emitted + 1
    /\ rot_emitted' = (rot_emitted \/ pass = "rotating")
    /\ pc' = "detail"
    /\ UNCHANGED <<settingsVars, passVars, iteration, pageVars, ctx, exc, iamVars,
                   item_details, item, steps, enrich, requests, yielded, fetched,
                   driverVars, sessionVars, fault, last_result, callVars>>

\* The counter moves by two.
NextIteration_ByTwo == iteration + 2

\* iteration += 1.
NextIteration == iteration + 1

\* The page is exhausted: iteration += 1 and the context follows.
Advance ==
    /\ pc = "emit"
    /\ PageExhausted
    /\ iteration' = NextIteration
    /\ ctx' = [ctx EXCEPT !.iteration = NextIteration]
    /\ page_len' = 0
    /\ idx' = 0
    /\ pc' = "loop"
    /\ UNCHANGED <<settingsVars, passVars, exc, iamVars, recVars,
                   countVars, driverVars, sessionVars, rot_emitted, fault, last_result, callVars>>

\* After the loop, outside the try block: the iteration cap.
AfterLoop ==
    /\ pc = "after_loop"
    /\ IF iteration >= MAX_ITERATIONS
       THEN /\ exc' = [cls |-> "MaxIteration", text |-> "Reached max iterations"]
            /\ fault' = "max_iterations"
            /\ pc' = "pass_raised"
       ELSE /\ pc' = "pass_done"
            /\ UNCHANGED <<exc, fault>>
    /\ UNCHANGED <<settingsVars, passVars, iteration, pageVars, ctx, iamVars,
                   recVars, countVars, driverVars, sessionVars, rot_emitted, last_result, callVars>>

----------------------------------------------------------------------------
(* Record Enricher: _load_list *)

\* The (record, error text) pair _load_list yields for a failed record: the
\* error is the exception of the step in progress.
Pair(rec) == [rec EXCEPT !.kind = "pair", !.err = pc]

\* The item of a record that went through the three steps is never yielded:
\* the generator stays suspended.
NextStep_NeverYields(step) ==
    IF step = "detail" THEN "software"
    ELSE IF step = "software" THEN "saas"
    ELSE "suspended"

\* The software step is left out.
NextStep_SkipSoftware(step) ==
    IF step = "detail" THEN "saas" ELSE "yield_item"

\* The try block of _load_list: get_detail_of_item, _add_desktop_software,
\* _add_saas_information, then the item is yielded.
NextStep(step) ==
    IF step = "detail" THEN "software"
    ELSE IF step = "software" THEN "saas"
    ELSE "yield_item"

\* An enrichment step raised and the error leaves _load_list: the record gets
\* no item and the pass ends.
StepFails_Abort ==
    /\ item' = NoItem
    /\ pc' = "pass_raised"

\* An enrichment step raised: the except clause of _load_list yields the pair.
StepFails ==
    /\ item' = Pair(list_response_item)
    /\ pc' = "yield_item"

\* What the detail request can do once the call is authorized: the response
\* parses to a dict or to something else (a list, a string, a number, None).
DetailResults == {"build_fail", "request_fail", "dict", "other"}

\* The object get_detail_of_item returns for a response of shape r: the list
\* record is set into it under 'list_response_item' only if it is a dict.
DetailResponse(rec, r) == [rec EXCEPT !.merged = (r = "dict"), !.dict = (r = "dict")]

\* get_detail_of_item.
GetDetail ==
    /\ pc = "detail"
    /\ steps' = Append(steps, "detail")
    /\ IF ~cfg.detail
       THEN /\ item_details' = list_response_item
            /\ pc' = NextStep("detail")
            /\ UNCHANGED <<ctx, item, sessionVars, enrich>>
       ELSE /\ stale_seen' = (stale_seen \/ SeesStale(ctx.keys))
            /\ \E r \in DetailResults, o \in AuthOutcomes(FALSE) :
                IF r = "build_fail"
                THEN /\ StepFails
                     /\ UNCHANGED <<ctx, item_details, session_entered, enrich>>
                ELSE /\ ctx' = [ctx EXCEPT !.keys = SessionKeysAfter(@, o)]
                     /\ session_entered' = (session_entered \/ IsSessionOutcome(FALSE))
                     /\ enrich' = [enrich EXCEPT !.detail_requests =
                                       IF o = "ok" THEN 1 ELSE 0]
                     /\ IF o = "ok" /\ r \in {"dict", "other"}
                        THEN /\ item_details' = DetailResponse(list_response_item, r)
                             /\ pc' = NextStep("detail")
                             /\ UNCHANGED item
                        ELSE /\ StepFails
                             /\ UNCHANGED item_details
    /\ UNCHANGED <<settingsVars, passVars, iteration, pageVars, exc, iamVars,
                   list_response_item, countVars, driverVars, rot_emitted, fault, last_result, callVars>>

\* item_details and list_response_item are one object when there is no detail
\* Behavior: a field set on the one shows on the other.
Aliased == ~cfg.detail

\* What the software step can do once it has its response: the request or a
\* render fails, or the rendered list is empty or not.
SoftwareResults == {"fail", "empty", "list"}

\* The software Behavior is taken for a call whatever it holds.
SoftwareCalls_Always == TRUE

\* valid_api_spec: the software Behavior has both url and http_method.
SoftwareCalls == cfg.software = "call"

\* _call_endpoint_for_software before its request: build_call_specs fails, or
\* the authorization does what it can do.
SoftwareCallOutcomes == AuthOutcomes(FALSE) \cup {"build_fail"}

\* _add_desktop_software.
AddSoftware ==
    /\ pc = "software"
    /\ steps' = Append(steps, "software")
    /\ IF cfg.software = "off"
       THEN /\ pc' = NextStep("software")
            /\ UNCHANGED <<ctx, list_response_item, item_details, item, sessionVars,
                           enrich>>
       ELSE /\ stale_seen' = (stale_seen \/ SeesStale(ctx.keys))
            /\ \E r \in SoftwareResults,
                  o \in IF SoftwareCalls THEN SoftwareCallOutcomes ELSE {"ok"} :
                /\ ctx' = [ctx EXCEPT !.keys = SessionKeysAfter(@, o)]
                /\ session_entered' =
                       (session_entered
                            \/ (SoftwareCalls /\ o # "build_fail" /\ IsSessionOutcome(FALSE)))
                /\ enrich' = [enrich EXCEPT
                       !.software_requests = IF SoftwareCalls /\ o = "ok" THEN 1 ELSE 0,
                       !.software_list = IF o = "ok" THEN r ELSE "none"]
                /\ IF o = "ok" /\ r = "empty"
                   THEN /\ pc' = NextStep("software")
                        /\ UNCHANGED <<list_response_item, item_details, item>>
                   ELSE IF o = "ok" /\ r = "list" /\ item_details.dict
                   THEN /\ item_details' = [item_details EXCEPT !.software = TRUE]
                        /\ list_response_item' =
                               IF Aliased
                               THEN [list_response_item EXCEPT !.software = TRUE]
                               ELSE list_response_item
                        /\ pc' = NextStep("software")
                        /\ UNCHANGED item
                   ELSE /\ StepFails
                        /\ UNCHANGED <<list_response_item, item_details>>
    /\ UNCHANGED <<settingsVars, passVars, iteration, pageVars, exc, iamVars,
                   countVars, driverVars, rot_emitted, fault, last_result, callVars>>

\* The SaaS step can raise whatever item_details is.
SaasAttachFails_Always == TRUE

\* item_details['saas'] = {...} raises on an object that is not a dict, and
\* nothing else in _add_saas_information can raise.
SaasAttachFails == ~item_details.dict

\* _add_saas_information, then the else branch of _load_list.
AddSaas ==
    /\ pc = "saas"
    /\ steps' = Append(steps, "saas")
    /\ IF ~cfg.saas
       THEN /\ item' = item_details
            /\ UNCHANGED <<list_response_item, item_details>>
       ELSE IF ~SaasAttachFails
       THEN /\ item_details' = [item_details EXCEPT !.saas = TRUE]
            /\ list_response_item' =
                   IF Aliased THEN [list_response_item EXCEPT !.saas = TRUE]
                   ELSE list_response_item
            /\ item' = [item_details EXCEPT !.saas = TRUE]
       ELSE /\ item' = Pair(list_response_item)
            /\ UNCHANGED <<list_response_item, item_details>>
    /\ pc' = NextStep("saas")
    /\ UNCHANGED <<settingsVars, passVars, iteration, pageVars, ctx, exc, iamVars,
                   enrich, countVars, driverVars, sessionVars, rot_emitted, fault, last_result, callVars>>

\* _load_list yields the item: into list(...) in a rotating pass, otherwise
\* through the yield from chain to the consumer of _load_records.
YieldItem ==
    /\ pc = "yield_item"
    /\ yielded' = yielded + 1
    /\ IF pass = "rotating"
       THEN iam_response' = iam_response + 1 /\ UNCHANGED delivered
       ELSE delivered' = delivered \cup {item.kind} /\ UNCHANGED iam_response
    /\ idx' = idx + 1
    /\ list_response_item' = NoItem
    /\ item_details' = NoItem
    /\ item' = NoItem
    /\ steps' = <<>>
    /\ enrich' = NoEnrich
    /\ pc' = "emit"
    /\ UNCHANGED <<settingsVars, passVars, iteration, page_len, ctx, exc,
                   iam_iteration, iam_records, creds_used, requests, emitted,
                   fetched, actions, caught, sessionVars, rot_emitted, fault, last_result, callVars>>

----------------------------------------------------------------------------
(* Credential Rotation Driver: _load_iam_list *)

\* The except clause of _load_iam_list.
IamExceptClause(e, n) ==
    IF n = 0 THEN [cls |-> "InBeginning", text |-> e.text]
    ELSE [cls |-> "InMiddle", text |-> e.text]

\* The credential id is read and the IAM source built.
IamStart ==
    /\ pc = "iam_start"
    /\ iam_iteration' = 0
    /\ iam_records' = 0
    /\ \E ok \in BOOLEAN :
        IF ok /\ saas_authorization.credential_id # "absent"
        THEN pc' = "iam_next" /\ UNCHANGED <<exc, fault>>
        ELSE /\ exc' = IamExceptClause(Error("iam_source"), 0)
             /\ fault' = "iam_source"
             /\ pc' = "handle"
    /\ UNCHANGED <<settingsVars, passVars, iteration, pageVars, ctx, iam_response,
                   creds_used, recVars, countVars, driverVars, sessionVars,
                   rot_emitted, last_result, callVars>>

\* The default pass tolerates an empty start whatever the rotating passes gave.
DefaultSkipEmpty_Always == TRUE

\* skip_empty_response = True if iam_records > 0 else False.
DefaultSkipEmpty == iam_records > 0

\* The default pass is given the credential set drawn last.
DefaultPassCredentials_Reuse == creds_used

\* yield from self._load_list(skip_empty_response=...): no iam_credentials.
DefaultPassCredentials == NoCredentials

\* for iam_credentials in iam.get_iam_credentials(): the next set, the end of
\* the sequence (then the default pass), or a failure of the source.
IamNextCred ==
    /\ pc = "iam_next"
    /\ \E o \in {"credentials", "exhausted", "fail"} :
        /\ o = "credentials" => creds_used < MaxCreds
        /\ IF o = "credentials"
           THEN /\ creds_used' = creds_used + 1
                /\ pass' = "rotating"
                /\ skip_empty_response' = TRUE
                /\ iam_credentials' = creds_used + 1
                /\ iam_response' = 0
                /\ pc' = "pass_start"
                /\ UNCHANGED <<exc, fault>>
           ELSE IF o = "exhausted"
           THEN /\ pass' = "default"
                /\ skip_empty_response' = DefaultSkipEmpty
                /\ iam_credentials' = DefaultPassCredentials
                /\ pc' = "pass_start"
                /\ UNCHANGED <<creds_used, iam_response, exc, fault>>
           ELSE /\ exc' = IamExceptClause(Error("iam_credentials"), iam_iteration)
                /\ fault' = "iam_credentials"
                /\ pc' = "handle"
                /\ UNCHANGED <<passVars, creds_used, iam_response>>
    /\ UNCHANGED <<settingsVars, iteration, pageVars, ctx, iam_iteration,
                   iam_records, recVars, countVars, driverVars, sessionVars,
                   rot_emitted, last_result, callVars>>

\* A rotating pass ended: the collected list is yielded as one item, then
\* iteration += 1 and iam_records += len(iam_response).
RotatingPassDone ==
    /\ pc = "pass_done"
    /\ pass = "rotating"
    /\ delivered' = delivered \cup {IF iam_response = 0 THEN "empty_list" ELSE "list"}
    /\ iam_iteration' = iam_iteration + 1
    /\ iam_records' = iam_records + iam_response
    /\ pc' = "iam_next"
    /\ UNCHANGED <<settingsVars, passVars, iteration, pageVars, ctx, exc,
                   iam_response, creds_used, recVars, countVars, actions, caught,
                   sessionVars, rot_emitted, fault, last_result, callVars>>

\* A rotating pass raised: any exception is caught and reclassified.
RotatingPassRaised ==
    /\ pc = "pass_raised"
    /\ pass = "rotating"
    /\ exc' = IamExceptClause(exc, iam_iteration)
    /\ pc' = "handle"
    /\ UNCHANGED <<settingsVars, passVars, iteration, pageVars, ctx, iamVars,
                   recVars, countVars, driverVars, sessionVars, rot_emitted, fault, last_result, callVars>>

----------------------------------------------------------------------------
(* Sync driver: _load_records *)

\* What the lines of _load_records before its try block can do: the inputs
\* fail to render or to load, the token id is not resolved, authenticate()
\* fails, or all of it succeeds.
PreambleOutcomes ==
    {"ok", "inputs_fail", "authenticate_fail"}
        \cup (IF oomnitza_authorization.type = "dict" THEN {"token_fail"} ELSE {})

\* _load_records up to the first pass: the inputs, the Oomnitza token for the
\* sync, authenticate(); then the try block is entered: credential rotation
\* if iam_roles is set, the direct pass otherwise.  An error before the try
\* block leaves _load_records as it is.
LoadRecords ==
    /\ pc = "ready"
    /\ \E o \in PreambleOutcomes :
        /\ api_token' = IF o \in {"ok", "authenticate_fail"}
                        THEN get_oomnitza_auth_for_sync(oomnitza_authorization)
                        ELSE api_token
        /\ IF o # "ok"
           THEN /\ exc' = Error(o)
                /\ pc' = "preamble_raised"
                /\ UNCHANGED passVars
           ELSE /\ UNCHANGED exc
                /\ IF cfg.iam
                   THEN pc' = "iam_start" /\ UNCHANGED passVars
                   ELSE /\ pass' = "direct"
                        /\ skip_empty_response' = FALSE
                        /\ iam_credentials' = NoCredentials
                        /\ pc' = "pass_start"
    /\ UNCHANGED <<saas_authorization, session_auth_behavior, ctor_error, cfg,
                   oomnitza_authorization, oomnitza_given, loaders_done,
                   iteration, pageVars, ctx, iamVars, recVars, countVars,
                   driverVars, sessionVars, rot_emitted, fault, last_result,
                   callVars>>

\* The direct or the default pass ended: the generator is exhausted.
PassDone ==
    /\ pc = "pass_done"
    /\ pass \in {"direct", "default"}
    /\ pc' = "done"
    /\ UNCHANGED <<settingsVars, passVars, iteration, pageVars, ctx, exc, iamVars,
                   recVars, countVars, driverVars, sessionVars, rot_emitted, fault, last_result, callVars>>

\* The direct or the default pass raised: nothing between it and the except
\* clauses of _load_records catches.
PassRaised ==
    /\ pc = "pass_raised"
    /\ pass \in {"direct", "default"}
    /\ pc' = "handle"
    /\ UNCHANGED <<settingsVars, passVars, iteration, pageVars, ctx, exc, iamVars,
                   recVars, countVars, driverVars, sessionVars, rot_emitted, fault, last_result, callVars>>

\* The reporting calls of the except clauses of _load_records.
InBeginningReports == <<"synthetic_failed_portion_fatal">>
InMiddleReports == <<"send_empty_fatal", "finalize_portion">>
EmptyInBeginningReports == <<"synthetic_empty_portion">>
\* The iteration cap is reported but the portion in progress is left open.
MaxIterationReports_NoFinalize == <<"send_empty_fatal">>
MaxIterationReports == <<"send_empty_fatal", "finalize_portion">>

\* An except clause of _load_records: its reporting calls, then raise.
Report(reports) ==
    /\ caught' = exc.cls
    /\ actions' = actions \o reports
    /\ pc' = "raised"
    /\ UNCHANGED <<settingsVars, passVars, iteration, pageVars, ctx, exc, iamVars,
                   recVars, countVars, delivered, sessionVars, rot_emitted, fault,
                   last_result, callVars>>

HandleInBeginning ==
    /\ pc = "handle"
    /\ exc.cls = "InBeginning"
    /\ Report(InBeginningReports)

HandleInMiddle ==
    /\ pc = "handle"
    /\ exc.cls = "InMiddle"
    /\ Report(InMiddleReports)

HandleEmptyInBeginning ==
    /\ pc = "handle"
    /\ exc.cls = "EmptyInBeginning"
    /\ Report(EmptyInBeginningReports)

HandleMaxIteration ==
    /\ pc = "handle"
    /\ exc.cls = "MaxIteration"
    /\ Report(MaxIterationReports)

----------------------------------------------------------------------------

Next ==
    \/ Construct
    \/ LoadRecords
    \/ IamStart
    \/ IamNextCred
    \/ PassStart
    \/ BuildListCall
    \/ LoopExit
    \/ Paginate
    \/ Authorize
    \/ Request
    \/ Emit
    \/ Advance
    \/ AfterLoop
    \/ GetDetail
    \/ AddSoftware
    \/ AddSaas
    \/ YieldItem
    \/ RotatingPassDone
    \/ RotatingPassRaised
    \/ PassDone
    \/ PassRaised
    \/ HandleInBeginning
    \/ HandleInMiddle
    \/ HandleEmptyInBeginning
    \/ HandleMaxIteration

Spec == Init /\ [][Next]_vars

\* A step of a pagination pass: of get_list_of_items or of the enrichment of
\* the record it emitted.
PassStep ==
    \/ PassStart
    \/ BuildListCall
    \/ LoopExit
    \/ Paginate
    \/ Authorize
    \/ Request
    \/ Emit
    \/ Advance
    \/ AfterLoop
    \/ GetDetail
    \/ AddSoftware
    \/ AddSaas
    \/ YieldItem

\* A pass that can take a step takes one: every external call returns or
\* fails, and the consumer of the generator asks for the next item.
LiveSpec == Spec /\ WF_vars(PassStep)

\* Construction and the start of a sync, for every oomnitza_authorization.
NextAuth ==
    \/ Construct
    \/ LoadRecords

SpecAuth == InitAuth /\ [][NextAuth]_vars

----------------------------------------------------------------------------
(* Properties *)

InEnrichment == pc \in {"detail", "software", "saas", "yield_item"}
PassEnded == pc \in {"pass_done", "pass_raised"}

\* C1: a pagination pass never executes more than MAX_ITERATIONS list
\* requests, no request is being prepared once the counter is at the cap, and
\* a pass whose counter reached the cap ends by raising the max-iteration
\* outcome after exactly MAX_ITERATIONS requests.
C1_RequestsCapped ==
    /\ requests <= MAX_ITERATIONS
    /\ iteration <= MAX_ITERATIONS
    /\ iteration = MAX_ITERATIONS =>
           pc \notin {"paginate", "authorize", "request", "emit", "pass_done"}
    /\ (pc = "pass_raised" /\ iteration = MAX_ITERATIONS) =>
           (exc.cls = "MaxIteration" /\ requests = MAX_ITERATIONS)

\* C1 witness: a pass ended in the max-iteration outcome after 1000 requests.
C1_Witness ==
    pc = "pass_raised" /\ exc.cls = "MaxIteration" /\ requests = MAX_ITERATIONS

\* C2: an empty result at iteration 0 without tolerance raises the
\* empty-at-start outcome with no record emitted; an empty result at
\* iteration 0 with tolerance, or at a later iteration, ends the pass normally.
C2_EmptyResult ==
    (last_result = "empty" /\ pc \in {"after_loop", "pass_done", "pass_raised"}) =>
        IF iteration = 0 /\ ~skip_empty_response
        THEN pc = "pass_raised" /\ exc.cls = "EmptyInBeginning" /\ emitted = 0
        ELSE pc \in {"after_loop", "pass_done"} /\ iteration < MAX_ITERATIONS

\* C2 witness: a first page that is empty, without tolerance, raised the
\* empty-at-start outcome.
C2_Witness ==
    /\ last_result = "empty" /\ iteration = 0 /\ pc = "pass_raised"
    /\ ~skip_empty_response /\ exc.cls = "EmptyInBeginning"

\* C3: a failure inside the pass other than the empty-at-start outcome is
\* raised as the early failure exactly when the counter is 0 and as the
\* mid-stream failure exactly when it is above 0, with the text of the
\* original error; the empty-at-start outcome keeps its class.
C3_Classification ==
    pc = "pass_raised" =>
        IF fault = "empty_at_start" THEN exc.cls = "EmptyInBeginning"
        ELSE IF fault = "max_iterations" THEN exc.cls = "MaxIteration"
        ELSE /\ exc.cls = (IF iteration = 0 THEN "InBeginning" ELSE "InMiddle")
             /\ exc.text = fault

\* C3 witness: a shim error on a later page is raised as the mid-stream failure.
C3_Witness ==
    /\ pc = "pass_raised" /\ iteration > 0 /\ fault = "shim_error"
    /\ exc.cls = "InMiddle"

\* C4: a pass that reached the iteration cap makes the max-iteration outcome
\* reach _load_records, which sends one empty fatal delivery, finalizes the
\* portion in progress and re-raises it.
C4_MaxIterationReachesDriver ==
    (pc = "raised" /\ fault = "max_iterations") =>
        /\ caught = "MaxIteration"
        /\ exc.cls = "MaxIteration"
        /\ actions = <<"send_empty_fatal", "finalize_portion">>

\* C5: every record a pass emits gets exactly one item from _load_list, in
\* the order of emission: the item about to be yielded is the enriched record
\* or the pair of the record just emitted, no record is waiting when the next
\* one is emitted, and a pass never ends with a record left without its item
\* or with records of a fetched page not emitted.
C5_OneItemPerRecord ==
    /\ InEnrichment => yielded = emitted - 1
    /\ ~InEnrichment => yielded = emitted
    /\ pc = "yield_item" =>
           /\ item.kind \in {"record", "pair"}
           /\ item.page = iteration /\ item.idx = idx
    /\ PassEnded => idx \in {0, page_len + 1}

\* C5 witness: after a record was degraded to a pair, a later record of the
\* same run is yielded enriched.
C5_Witness ==
    /\ pc = "yield_item" /\ item.kind = "record" /\ "pair" \in delivered
    /\ yielded > 0

\* C6: once generate_session_based_secret has been entered, no list, detail
\* or software Behavior is evaluated with `response`/`response_headers` in the
\* Rendering Context.
C6_SessionKeysCleared == ~stale_seen

\* C7: the default pass tolerates an empty start exactly when a rotating pass
\* emitted a record, every rotating pass tolerates it, and the default pass
\* starts only when every credential set drawn has had its pass completed.
C7_DefaultTolerance ==
    /\ pass = "rotating" => skip_empty_response
    /\ pass = "default" =>
           /\ skip_empty_response <=> rot_emitted
           /\ iam_iteration = creds_used

\* C7 witness: a default pass running with tolerance after a rotating pass
\* that yielded records.
C7_Witness ==
    pass = "default" /\ pc = "request" /\ skip_empty_response /\ iam_records > 0

\* C8: saas_authorization_loader either selects a mode or raises ConfigError.
C8_OnlyConfigError ==
    pc = "ctor_failed" => ctor_error = "ConfigError"

\* C9: the consumer of _load_records is never handed the records of a pass
\* as one list.
C9_OneAtATime == "list" \notin delivered

\* The reporting calls each outcome is to trigger.
ExpectedReports(cls) ==
    IF cls = "EmptyInBeginning" THEN <<"synthetic_empty_portion">>
    ELSE IF cls = "InBeginning" THEN <<"synthetic_failed_portion_fatal">>
    ELSE <<"send_empty_fatal", "finalize_portion">>

\* C10: _load_records answers the outcome it catches with that outcome's
\* reporting calls, once, and re-raises the same outcome; nothing is reported
\* before an outcome is caught, and a run that ends normally caught none.
C10_OutcomeActions ==
    /\ pc = "raised" =>
           /\ exc.cls \in {"EmptyInBeginning", "InBeginning", "InMiddle",
                           "MaxIteration"}
           /\ caught = exc.cls
           /\ actions = ExpectedReports(exc.cls)
    /\ pc # "raised" => actions = <<>> /\ caught = "none"
    /\ pc = "done" => exc = NoExc

\* C10 witness: the max-iteration outcome was caught, reported and re-raised.
C10_Witness ==
    pc = "raised" /\ caught = "MaxIteration" /\ Len(actions) = 2

\* The four classified outcomes.
Classified == {"EmptyInBeginning", "InBeginning", "InMiddle", "MaxIteration"}

\* C11: a failure that leaves a pass, the credential rotation or
\* _load_records is one of the four classified outcomes, never a generic
\* exception; a failure of an enrichment step raises nothing (the record is
\* yielded as a pair), so that no exception is in flight anywhere else.
C11_NoGenericEscapes ==
    /\ pc \in {"pass_raised", "handle", "raised"} => exc.cls \in Classified
    /\ pc \notin {"pass_raised", "handle", "raised", "preamble_raised"} => exc = NoExc
    /\ pc = "yield_item" => item.kind \in {"record", "pair"}

\* C11 witness: a failure of the IAM source after the first credential set
\* reaches _load_records as the mid-stream failure.
C11_Witness ==
    pc = "handle" /\ fault = "iam_credentials" /\ exc.cls = "InMiddle"

\* C12: when _load_records creates the synthetic failed portion for the early
\* failure, nothing was handed to its consumer earlier in the run: no record,
\* no pair and no list of records.
C12_EarlyOnlyBeforeAnyYield ==
    (pc = "raised" /\ caught = "InBeginning") =>
        delivered \cap {"record", "pair", "list"} = {}

\* C13: once break_early rendered true at iteration n, the pass executes no
\* list request at iteration n or later (every earlier iteration executed
\* one), add_if was rendered at the earlier iterations only, and the pass
\* ends normally: it prepares or executes nothing more and raises nothing.
C13_BreakEarlyEndsPass ==
    break_early =>
        /\ cfg.pagination
        /\ requests = iteration
        /\ add_if_evals = iteration
        /\ iteration < MAX_ITERATIONS
        /\ pc \notin {"loop", "paginate", "authorize", "request", "emit",
                      "detail", "software", "saas", "yield_item", "pass_raised"}
        /\ (pass \in {"direct", "default"} => exc = NoExc)

\* C13 witness: break_early rendered true at the second iteration; the pass
\* ended normally after one request and the two records of its page.
C13_Witness ==
    /\ break_early /\ pc = "pass_done" /\ iteration = 1
    /\ requests = 1 /\ emitted = 2

\* C14: the records a pass emits are the records of the pages it was given,
\* page after page and in the order of the page, each once: while a page is
\* being emitted the pass has emitted all earlier pages and the records of
\* this page up to the current one; when the loop ends on an empty page or on
\* break_early every record of every page has been emitted, and an empty page
\* after n pages is the answer to request n + 1.
C14_PagesConcatenated ==
    /\ pc = "emit" => emitted = fetched - page_len + idx - 1
    /\ InEnrichment =>
           /\ emitted = fetched - page_len + idx
           /\ list_response_item.page = iteration
           /\ list_response_item.idx = idx
    /\ pc \in {"after_loop", "pass_done"} =>
           /\ emitted = fetched
           /\ last_result = "empty" => requests = iteration + 1
           /\ break_early => requests = iteration

\* C14 witness: without a pagination rule, one page of two records and then
\* an empty page: two records, two requests, a normal end.
C14_Witness ==
    /\ pc = "pass_done" /\ pass = "direct" /\ ~cfg.pagination
    /\ last_result = "empty" /\ iteration = 1
    /\ emitted = 2 /\ requests = 2 /\ fetched = 2

\* C15: with a detail Behavior, the object a successful get_detail_of_item
\* returns holds the original list record whatever the shape of the detail
\* response; without one the record is returned unchanged and no detail
\* request was executed.
C15_DetailKeepsListRecord ==
    pc = "software" =>
        IF cfg.detail
        THEN item_details.merged
        ELSE item_details = list_response_item /\ enrich.detail_requests = 0

\* C16: once the software step ran with enrichment enabled, a software
\* request was executed only if the software Behavior has url and http_method
\* (and then exactly one when the step succeeded); otherwise the list was
\* rendered from item_details with no request; the record carries `software`
\* exactly when the step succeeded with a non-empty list.
C16_SoftwareRequest ==
    /\ enrich.software_requests > 0 => cfg.software = "call"
    /\ (pc = "saas" /\ cfg.software = "call") => enrich.software_requests = 1
    /\ (pc = "saas" /\ cfg.software = "derived") =>
           /\ enrich.software_requests = 0
           /\ enrich.software_list \in {"empty", "list"}
    /\ (pc = "saas" /\ cfg.software = "off") => enrich = [NoEnrich EXCEPT
           !.detail_requests = enrich.detail_requests]
    /\ pc = "saas" => (item_details.software <=> enrich.software_list = "list")
    /\ item_details.software => enrich.software_list = "list"

\* C16 witness: no url/http_method in the software Behavior; the list was
\* rendered from the detail response already fetched, with no further
\* request, and attached.
C16_Witness ==
    /\ pc = "saas" /\ cfg.software = "derived" /\ cfg.detail
    /\ enrich.detail_requests = 1 /\ enrich.software_requests = 0
    /\ item_details.software

\* C17: credential set k is drawn when k - 1 rotating passes have completed
\* and none is running; while its pass runs it is the set every list request
\* of the pass is authorized with; the direct and the default pass are given
\* no set and their requests carry the connector's own authorization.
C17_CredentialsInSequence ==
    /\ creds_used \in {iam_iteration, iam_iteration + 1}
    /\ pc = "iam_next" => creds_used = iam_iteration
    /\ pass = "rotating" =>
           (iam_credentials = creds_used
                /\ (pc \notin {"iam_next", "handle", "raised"} =>
                        creds_used = iam_iteration + 1))
    /\ pass \in {"direct", "default"} =>
           (iam_credentials = NoCredentials /\ creds_used = iam_iteration)
    /\ pc = "request" =>
           auth_with = (IF pass = "rotating" THEN iam_iteration + 1 ELSE NoCredentials)
    /\ pc # "request" => auth_with = NotAuthorized

\* C17 witness: the second credential set authorizes a request of the second
\* rotating pass, after the first pass gave records.
C17_Witness ==
    /\ pc = "request" /\ pass = "rotating" /\ auth_with = 2
    /\ iam_iteration = 1 /\ iam_records > 0

\* The inputs as the claim sorts them.
NonEmptyString(g) == g.type = "str" /\ g.truthy
EmptyOrAbsent(g) == g.type = "none" \/ (g.type \in {"str", "dict", "list"} /\ ~g.truthy)
TokenIdMapping(g) == g.type = "dict" /\ g.token_id = "set"

\* What the loader is to leave for an input, `inherits` saying which inputs
\* take the platform's token: the setting, and whether __init__ raises.
Resolution(g, inherits) ==
    IF NonEmptyString(g) THEN [oa |-> g, err |-> "none"]
    ELSE IF inherits THEN [oa |-> Token("platform"), err |-> "none"]
    ELSE IF TokenIdMapping(g)
    THEN [oa |-> [g EXCEPT !.extra = FALSE], err |-> "none"]
    ELSE [oa |-> g, err |-> "ConfigError"]

\* Once saas_authorization_loader has returned, the setting and the error are
\* the resolution `res` of the input; the token of the [oomnitza] section is
\* replaced only when a sync starts, and then by the token the setting stands
\* for.
ResolvedAs(res) ==
    /\ loaders_done = 0 => oomnitza_authorization = oomnitza_given
    /\ loaders_done > 0 =>
           /\ oomnitza_authorization = res.oa
           /\ ctor_error = res.err
           /\ (res.err = "none") <=> (loaders_done = 2 /\ pc # "ctor_failed")
    /\ pc \in {"new", "ready", "ctor_failed"} => api_token = Token("platform")
    /\ pc \in {"iam_start", "pass_start"} =>
           api_token = (IF TokenIdMapping(oomnitza_given)
                        THEN Token("token_service") ELSE oomnitza_authorization)

\* C18 as stated: a non-empty string is kept, an empty or absent input takes
\* the platform's token, a mapping with a token_id becomes the {token_id}
\* mapping that is resolved when a sync starts, and every other shape makes
\* __init__ raise ConfigError.
C18_OtherShapeRaises ==
    ResolvedAs(Resolution(oomnitza_given, EmptyOrAbsent(oomnitza_given)))

\* C18, amended: the platform's token is taken for every falsy input, the
\* numbers 0 and False among them; the other truthy shapes raise ConfigError.
C18_LoaderResolution ==
    ResolvedAs(Resolution(oomnitza_given, ~oomnitza_given.truthy))

\* C18 witness: a sync started for a connector configured with a mapping that
\* holds a token_id and other keys: the setting is the bare {token_id}
\* mapping and the token was resolved by the platform.
C18_Witness ==
    /\ pc \in {"iam_start", "pass_start"}
    /\ oomnitza_given.type = "dict" /\ oomnitza_given.extra
    /\ oomnitza_authorization.type = "dict" /\ ~oomnitza_authorization.extra
    /\ api_token = Token("token_service")

\* C19: the Call Specification a list request is executed with was built at
\* this iteration, holds the base, then the pagination extras if and only if
\* add_if rendered true, then the authorization, which so gives the value of
\* a key that the layers before it hold too; before the authorization is
\* merged the call holds the base and at most the extras, and no Call
\* Specification is in hand between a request and the next build.
C19_CallLayering ==
    /\ pc = "paginate" => call_spec = build_call_specs(iteration)
    /\ pc = "authorize" =>
           /\ call_spec.built_at = iteration
           /\ call_spec.layers \in {<<"base">>, <<"base", "extras">>}
    /\ pc = "request" =>
           /\ call_spec.built_at = iteration
           /\ call_spec.layers \in {<<"base", "auth">>, <<"base", "extras", "auth">>}
           /\ Effective(call_spec) = "auth"
    /\ pc \in {"authorize", "request"} =>
           /\ (Len(call_spec.layers) > 1 /\ call_spec.layers[2] = "extras")
                  <=> call_spec.add_if = "true"
           /\ call_spec.add_if = "none" <=> ~cfg.pagination
    /\ pc \notin {"paginate", "authorize", "request"} => call_spec = NoCall

\* C19 witness: the request of a later iteration is about to be executed with
\* a call built at that iteration, the extras merged and the authorization
\* on top.
C19_Witness ==
    /\ pc = "request" /\ iteration = 1
    /\ call_spec = [built_at |-> 1, layers |-> <<"base", "extras", "auth">>,
                    add_if |-> "true"]

\* The order the claim gives the enrichment steps.
StepOrder == <<"detail", "software", "saas">>

\* C20: the steps attempted for a record are the first ones of detail,
\* software, SaaS in that order: the software step starts after the detail
\* step returned and before anything of the software list is in the record;
\* a record yielded as a pair had its last step attempted fail, and a record
\* yielded enriched went through all three.
C20_EnrichmentOrder ==
    /\ Len(steps) <= 3
    /\ \A i \in 1..Len(steps) : steps[i] = StepOrder[i]
    /\ pc = "detail" => steps = <<>>
    /\ pc = "software" => (steps = <<"detail">> /\ ~item_details.software)
    /\ pc = "saas" => steps = <<"detail", "software">>
    /\ pc = "yield_item" =>
           IF item.kind = "pair"
           THEN steps # <<>> /\ item.err = steps[Len(steps)]
           ELSE steps = StepOrder /\ item.err = ""
    /\ ~InEnrichment => steps = <<>>

\* C20 witness: the software step of a record failed after its detail was
\* merged; the pair is yielded with the SaaS step never attempted.
C20_Witness ==
    /\ pc = "yield_item" /\ item.kind = "pair" /\ item.err = "software"
    /\ steps = <<"detail", "software">> /\ item_details.merged /\ cfg.saas

\* C21: a list response with the shim error marker ends the pass like a
\* failed request: the context keeps the list response it had (the empty one
\* at iteration 0, the one of the iteration before otherwise), no record of
\* that response is fetched or emitted, and the pass raises the early failure
\* at iteration 0 and the mid-stream failure later, with the marker's error.
C21_ShimErrorIsRequestFailure ==
    last_result = "shim_error" =>
        /\ pc \in {"pass_raised", "handle", "raised"}
        /\ ctx.list_response = iteration - 1
        /\ ctx.iteration = iteration
        /\ emitted = fetched /\ yielded = emitted
        /\ page_len = 0 /\ idx = 0
        /\ fault = "shim_error"
        /\ pc = "pass_raised" =>
               exc = [cls |-> (IF iteration = 0 THEN "InBeginning" ELSE "InMiddle"),
                      text |-> "shim_error"]

\* C21 witness: the second list response carries the marker; the context
\* still holds the first response and the pass raised the mid-stream failure.
C21_Witness ==
    /\ last_result = "shim_error" /\ pc = "pass_raised" /\ iteration = 1
    /\ ctx.list_response = 0 /\ requests = 2 /\ emitted > 0

\* C22: the record of a pair about to be yielded is the list record as the
\* pass emitted it: the record of this page and position, with no detail
\* merged, no `software` field and no `saas` block, whichever step failed.
C22_PairHoldsOriginalRecord ==
    (pc = "yield_item" /\ item.kind = "pair") =>
        /\ item = [ListRecord(list_response_item.dict) EXCEPT
                       !.kind = "pair", !.err = item.err]
        /\ item.err \in {"detail", "software", "saas"}
        /\ ~list_response_item.software /\ ~list_response_item.saas
        /\ ~list_response_item.merged

\* C22 witness: without a detail Behavior, the software step ran on the list
\* record itself and the SaaS step then failed; the pair holds the record
\* untouched.
C22_Witness ==
    /\ pc = "yield_item" /\ item.kind = "pair" /\ item.err = "saas"
    /\ ~cfg.detail /\ cfg.software # "off" /\ ~item.software

\* Where the thread of control is inside the loop of a pass.
InLoop ==
    pc \in {"loop", "paginate", "authorize", "request", "emit", "after_loop"}
        \/ InEnrichment

\* A step of the counter: it keeps its value, or a pass starts and it is 0
\* with the list response of the context emptied, or it grows by one when
\* the for loop over a non-empty page has emitted its last record and every
\* record emitted has been yielded; the context key follows in the same step.
IterationStep ==
    /\ pc = "pass_start" =>
           /\ iteration' = 0
           /\ ctx'.iteration = 0 /\ ctx'.list_response = -1
    /\ pc # "pass_start" =>
           \/ iteration' = iteration
           \/ /\ iteration' = iteration + 1
              /\ pc = "emit" /\ last_result = "page"
              /\ page_len > 0 /\ idx = page_len + 1
              /\ emitted = fetched /\ yielded = emitted
              /\ ctx'.iteration = iteration'

\* C23: the counter of a pass is in 0..MAX_ITERATIONS, is 0 when a pass
\* starts (with the list response of the context emptied), never decreases
\* inside a pass and grows by exactly one only after a non-empty page whose
\* records were all emitted; inside the loop, so whenever a list call is
\* built, the context key `iteration` is the counter.
C23_IterationCounter ==
    /\ [](iteration \in 0..MAX_ITERATIONS)
    /\ [](InLoop => ctx.iteration = iteration)
    /\ [][IterationStep]_vars

\* C23 witness: the default pass, started after a rotating pass that had
\* advanced its counter, is building the call of its second iteration.
C23_Witness ==
    /\ pass = "default" /\ pc = "paginate" /\ iteration = 1
    /\ ctx.iteration = 1 /\ iam_records > 1

\* C24: under LiveSpec every pass that starts reaches an end, normal or
\* raised, whatever the remote API answers.
C24_PassTerminates == (pc = "pass_start") ~> PassEnded

\* C24 witness: against a remote API that returns a non-empty page to every
\* request, the pass ended by raising at the cap, all 1000 pages emitted.
C24_Witness ==
    /\ cfg.endless /\ pc = "pass_raised" /\ fault = "max_iterations"
    /\ iteration = MAX_ITERATIONS /\ emitted = MAX_ITERATIONS

\* C25: a pass without empty-start tolerance that has emitted no record ends
\* normally only after break_early rendered true at iteration 0, with no
\* request executed; if it raises, it raises the empty-at-start outcome or
\* the early failure.
C25_ZeroRecordsEnd ==
    (~skip_empty_response /\ emitted = 0) =>
        /\ pc \in {"after_loop", "pass_done"} =>
               (break_early /\ iteration = 0 /\ requests = 0)
        /\ pc = "pass_raised" => exc.cls \in {"EmptyInBeginning", "InBeginning"}

\* C25 witness: the default pass, given no tolerance because the rotating
\* passes gave no record, ended normally on break_early with nothing emitted.
C25_Witness ==
    /\ pc = "pass_done" /\ pass = "default" /\ ~skip_empty_response
    /\ emitted = 0 /\ break_early
====
